---------------------------- MODULE Spec2Model ----------------------------
(***************************************************************************)
(* Model of the data loader of Billingegroup/utils:                        *)
(*   src/utils/load_data.py        load_data, countcolumnsvalues           *)
(*   src/utils-long/loaddata.py    _parsecolumnid, _loadplotdata           *)
(*                                                                         *)
(* Text is modelled as sequences of one-character strings, so that         *)
(* splitting, stripping, integer and float recognition are computed the    *)
(* way the Python code computes them.  Python's None is the empty tuple    *)
(* and a present value x is the one-element tuple <<x>>.                   *)
(***************************************************************************)
EXTENDS Integers, Sequences, FiniteSets, TLC

VARIABLES
    pc,          \* position of the running function
    \* ---- load_data (src/utils/load_data.py)
    lines,       \* the file: its lines in order, each ending in "\n"
    minrows,     \* argument minrows
    delimiter,   \* kwargs.get('delimiter'): None or Some(char)
    usecols,     \* kwargs.get('usecols'): None or Some(sequence of integers)
    mincv,       \* the threshold (columns, values)
    lineno,      \* number of lines the file iterator has delivered
    fpos,        \* bytes consumed so far
    nrows,       \* rows counted in the active candidate
    start,       \* None or Some(offset of the active candidate)
    ncvblock,    \* None or the classification of the active candidate
    ncv,         \* classification of the line read last
    rv,          \* the returned value
    \* ---- _parsecolumnid (src/utils-long/loaddata.py)
    arg,         \* the object the caller passed
    sx,          \* the local sx: the argument, then the list it is rebound to
    widx,        \* index of the next item of sx in the for loop
    rvlist,      \* the local list rv being built
    ret,         \* None until the function returns, then Some(value)
    err,         \* None or Some(exception raised)
    \* ---- _loadplotdata (src/utils-long/loaddata.py)
    xi, yi,      \* the x and y column identifiers
    uc,          \* the usecols list handed to the loader
    dotindices,  \* positions of the alias "." in uc
    dotalias,    \* the placeholder column standing in for "."
    d,           \* the array returned by the loader
    xy           \* the returned (xdata, ydata) pair

vars == <<pc, lines, minrows, delimiter, usecols, mincv, lineno, fpos, nrows,
          start, ncvblock, ncv, rv, arg, sx, widx, rvlist, ret, err,
          xi, yi, uc, dotindices, dotalias, d, xy>>

loadvars == <<lines, minrows, delimiter, usecols, mincv, lineno, fpos, nrows,
              start, ncvblock, ncv, rv>>
parsevars == <<arg, sx, widx, rvlist, ret>>
plotvars == <<xi, yi, uc, dotindices, dotalias, d, xy>>

-----------------------------------------------------------------------------
(* Bounds of the model *)

MaxLines == 3
MaxMinRows == 2
MaxPad == 2
MaxNum == 2

-----------------------------------------------------------------------------
(* Python values *)

None == <<>>
Some(x) == <<x>>
Val(o) == o[1]

BoundedSeq(S, n) == UNION {[1..k -> S] : k \in 0..n}

Max2(a, b) == IF a >= b THEN a ELSE b

RECURSIVE SeqMax(_)
SeqMax(s) == IF Len(s) = 1 THEN s[1] ELSE Max2(s[1], SeqMax(Tail(s)))

RECURSIVE SeqMin(_)
SeqMin(s) ==
    IF Len(s) = 1 THEN s[1]
    ELSE LET m == SeqMin(Tail(s)) IN IF s[1] <= m THEN s[1] ELSE m

Range(s) == {s[i] : i \in 1..Len(s)}

-----------------------------------------------------------------------------
(* Python text primitives on character sequences *)

Digit == {"0", "1", "2", "3", "4", "5", "6", "7", "8", "9"}
Space == {" ", "\t", "\n", "\r"}
Alpha == {"a", "b", "c", "e", "x", "y", "G", "Q", "r"}

\* str.strip()
RECURSIVE LStrip(_)
LStrip(s) == IF s # <<>> /\ s[1] \in Space THEN LStrip(Tail(s)) ELSE s

RECURSIVE RStrip(_)
RStrip(s) ==
    IF s # <<>> /\ s[Len(s)] \in Space THEN RStrip(SubSeq(s, 1, Len(s) - 1))
    ELSE s

Strip(s) == RStrip(LStrip(s))

\* str.split(sep) for a one-character separator: every occurrence cuts
RECURSIVE SplitOnAcc(_, _, _, _, _)
SplitOnAcc(s, c, i, cur, out) ==
    IF i > Len(s) THEN Append(out, cur)
    ELSE IF s[i] = c THEN SplitOnAcc(s, c, i + 1, <<>>, Append(out, cur))
    ELSE SplitOnAcc(s, c, i + 1, Append(cur, s[i]), out)

SplitOn(s, c) == SplitOnAcc(s, c, 1, <<>>, <<>>)

\* str.split(None): cut at runs of whitespace, no empty words
RECURSIVE SplitWSAcc(_, _, _, _)
SplitWSAcc(s, i, cur, out) ==
    LET flushed == IF cur = <<>> THEN out ELSE Append(out, cur) IN
    IF i > Len(s) THEN flushed
    ELSE IF s[i] \in Space THEN SplitWSAcc(s, i + 1, <<>>, flushed)
    ELSE SplitWSAcc(s, i + 1, Append(cur, s[i]), out)

SplitWS(s) == SplitWSAcc(s, 1, <<>>, <<>>)

\* line.split(delimiter)
Split(s, delim) == IF delim = None THEN SplitWS(s) ELSE SplitOn(s, Val(delim))

CountChar(s, c) == Cardinality({i \in 1..Len(s) : s[i] = c})

\* float(w) succeeds: surrounding whitespace, an optional sign, digits with at
\* most one decimal point and at least one digit.  (The modelled files spell
\* no exponent, inf or nan.)
IsFloat(w) ==
    LET s == Strip(w)
        body == IF s # <<>> /\ s[1] \in {"+", "-"} THEN Tail(s) ELSE s
    IN  /\ body # <<>>
        /\ \A i \in 1..Len(body) : body[i] \in Digit \cup {"."}
        /\ CountChar(body, ".") <= 1
        /\ \E i \in 1..Len(body) : body[i] \in Digit

\* words[i] with Python's indexing; Indexable is "no IndexError"
Indexable(words, i) == -Len(words) <= i /\ i < Len(words)
Item(words, i) == IF i >= 0 THEN words[i + 1] ELSE words[Len(words) + i + 1]

\* tuple comparison a < b of two pairs (lexicographic)
TupleLess(a, b) == a[1] < b[1] \/ (a[1] = b[1] /\ a[2] < b[2])

-----------------------------------------------------------------------------
(* load_data *)

MutNoTrim(words) == words

\* while words and not words[-1].strip(): words.pop(-1)
RECURSIVE TrimTrailingBlank(_)
TrimTrailingBlank(words) ==
    IF words # <<>> /\ Strip(words[Len(words)]) = <<>>
    THEN TrimTrailingBlank(SubSeq(words, 1, Len(words) - 1))
    ELSE words

MutCaughtKeepsColumns(nc) == <<nc, 0>>

\* what the except clause of countcolumnsvalues returns
CaughtNcv(nc) == <<0, 0>>

countcolumnsvalues(line, delim, cols) ==
    LET words == TrimTrailingBlank(Split(line, delim))
        nc == Len(words)
    IN  IF cols # None
        THEN LET uc0 == Val(cols) IN
             IF \E k \in 1..Len(uc0) : ~Indexable(words, uc0[k])
             THEN CaughtNcv(nc)                             \* IndexError
             ELSE IF \E k \in 1..Len(uc0) : ~IsFloat(Item(words, uc0[k]))
             THEN CaughtNcv(nc)                             \* ValueError
             ELSE <<nc, Len(uc0)>>
        ELSE IF \E k \in 1..nc : ~IsFloat(words[k])
             THEN CaughtNcv(nc)                             \* ValueError
             ELSE <<nc, nc>>

\* _resolveStringColumns on a list of integers: the list itself
ResolveStringColumns(cols) == cols

\* mincv as computed by lines 38-45
Threshold(cols) ==
    IF cols = None THEN <<1, 1>>
    ELSE LET u == ResolveStringColumns(Val(cols))
             hiidx == Max2(-SeqMin(u), SeqMax(u) + 1)
         IN  <<hiidx, Cardinality(Range(u))>>

MutBelowOrEqual(c, m) == TupleLess(c, m) \/ c = m

\* if ncv < mincv
BelowThreshold(c, m) == TupleLess(c, m)

MutNewBlockIgnoresShape(st, blk, c) == st = None

\* if start is None or ncv != ncvblock
NewBlock(st, blk, c) == st = None \/ c # blk

MutBlockStartAfterLine(fp, line) == fp

\* start = fpos - len(line), fpos already advanced past the line
BlockStart(fp, line) == fp - Len(line)

\* One pass of the body of "for line in fid" over a scanner state
\* [fpos, nrows, start, ncvblock, found]
ScanStep(s, line, delim, cols, m, minr) ==
    LET fp == s.fpos + Len(line)
        c == countcolumnsvalues(line, delim, cols)
    IN  IF BelowThreshold(c, m)
        THEN [s EXCEPT !.fpos = fp, !.start = None, !.ncv = c]
        ELSE LET fresh == NewBlock(s.start, s.ncvblock, c)
                 nr == (IF fresh THEN 0 ELSE s.nrows) + 1
             IN  [fpos |-> fp,
                  nrows |-> nr,
                  start |-> IF fresh THEN Some(BlockStart(fp, line)) ELSE s.start,
                  ncvblock |-> IF fresh THEN c ELSE s.ncvblock,
                  ncv |-> c,
                  found |-> nr >= minr]

ScanInit == [fpos |-> 0, nrows |-> 0, start |-> None, ncvblock |-> None,
             ncv |-> None, found |-> FALSE]

ScanState == [fpos |-> fpos, nrows |-> nrows, start |-> start,
              ncvblock |-> ncvblock, ncv |-> ncv, found |-> pc = "found"]

\* lines 85-92: what is returned once the loop is left
LoadResult(st, blk) ==
    IF st = None THEN [kind |-> "empty", offset |-> 0, ncols |-> 0]
    ELSE [kind |-> "loadtxt", offset |-> Val(st), ncols |-> blk[1]]

-----------------------------------------------------------------------------
(* Inputs of load_data *)

LineChoices ==
    { <<"1", "\n">>,
      <<"1", " ", "2", "\n">>,
      <<"x", "\n">>,
      <<"\n">>,
      <<"1", " ", "x", "\n">>,
      <<"1", ",", "2", ",", "\n">> }

UsecolsChoices == { None, Some(<<0>>), Some(<<1>>), Some(<<-1>>), Some(<<-2, 0, 0>>) }

DelimiterChoices == { None, Some(",") }

ParseIdle == arg = None /\ sx = None /\ widx = 0 /\ rvlist = <<>> /\ ret = None

PlotIdle == /\ xi = None /\ yi = None /\ uc = <<>> /\ dotindices = <<>>
            /\ dotalias = None /\ d = None /\ xy = None

LoadIdle == /\ lines = <<>> /\ minrows = 0 /\ delimiter = None /\ usecols = None
            /\ mincv = <<1, 1>> /\ lineno = 0 /\ fpos = 0 /\ nrows = 0
            /\ start = None /\ ncvblock = None /\ ncv = None /\ rv = None

LoadInit ==
    /\ pc = "args"
    /\ lines \in BoundedSeq(LineChoices, MaxLines)
    /\ minrows \in 1..MaxMinRows
    /\ delimiter \in DelimiterChoices
    /\ usecols \in UsecolsChoices
    /\ mincv = <<1, 1>>
    /\ lineno = 0 /\ fpos = 0 /\ nrows = 0
    /\ start = None /\ ncvblock = None /\ ncv = None /\ rv = None
    /\ err = None
    /\ ParseIdle /\ PlotIdle

\* lines 35-45 and 65-66
DetermineArgs ==
    /\ pc = "args"
    /\ mincv' = Threshold(usecols)
    /\ start' = None /\ ncvblock' = None
    /\ fpos' = 0 /\ nrows' = 0
    /\ pc' = "scan"
    /\ UNCHANGED <<lines, minrows, delimiter, usecols, lineno, ncv, rv>>
    /\ UNCHANGED <<parsevars, err, plotvars>>

\* lines 67-82: one iteration of the loop
ScanLine ==
    /\ pc = "scan"
    /\ lineno < Len(lines)
    /\ LET s == ScanStep(ScanState, lines[lineno + 1], delimiter, usecols,
                         mincv, minrows)
       IN  /\ fpos' = s.fpos
           /\ nrows' = s.nrows
           /\ start' = s.start
           /\ ncvblock' = s.ncvblock
           /\ ncv' = s.ncv
           /\ pc' = IF s.found THEN "found" ELSE "scan"
    /\ lineno' = lineno + 1
    /\ UNCHANGED <<lines, minrows, delimiter, usecols, mincv, rv>>
    /\ UNCHANGED <<parsevars, err, plotvars>>

\* the iterator is exhausted: the loop ends without break
EndOfFile ==
    /\ pc = "scan"
    /\ lineno = Len(lines)
    /\ pc' = "eof"
    /\ UNCHANGED <<loadvars, parsevars, err, plotvars>>

\* lines 83-93
Return ==
    /\ pc \in {"found", "eof"}
    /\ rv' = Some(LoadResult(start, ncvblock))
    /\ pc' = "done"
    /\ UNCHANGED <<lines, minrows, delimiter, usecols, mincv, lineno, fpos,
                   nrows, start, ncvblock, ncv>>
    /\ UNCHANGED <<parsevars, err, plotvars>>

LoadNext == DetermineArgs \/ ScanLine \/ EndOfFile \/ Return

Spec == LoadInit /\ [][LoadNext]_vars

-----------------------------------------------------------------------------
(* Properties of load_data *)

\* byte offset of the first byte of line i (1-based)
RECURSIVE Offset(_)
Offset(i) == IF i <= 1 THEN 0 ELSE Offset(i - 1) + Len(lines[i - 1])

Cls(i) == countcolumnsvalues(lines[i], delimiter, usecols)

Componentwise(c, m) == c[1] >= m[1] /\ c[2] >= m[2]

Qual(i) == Componentwise(Cls(i), mincv)

\* lines j .. j+minrows-1 exist, all qualify and share one classification
IsRunStart(j, last) ==
    /\ j + minrows - 1 <= last
    /\ \A t \in j..(j + minrows - 1) : Qual(t) /\ Cls(t) = Cls(j)

Fields(line) == TrimTrailingBlank(Split(line, delimiter))

\* the fields the conversion looks at; "narrow" when one of them is missing
Narrow(line) ==
    usecols # None /\
    \E k \in 1..Len(Val(usecols)) : ~Indexable(Fields(line), Val(usecols)[k])

NeededFields(line) ==
    IF usecols = None THEN Fields(line)
    ELSE [k \in 1..Len(Val(usecols)) |-> Item(Fields(line), Val(usecols)[k])]

\* empty, too narrow for the requested columns, or non-numeric on a needed field
Unqualified(line) ==
    \/ Fields(line) = <<>>
    \/ Narrow(line)
    \/ \E k \in 1..Len(NeededFields(line)) : ~IsFloat(NeededFields(line)[k])

\* C1 (as claimed): when no candidate of minrows rows exists in the file, the
\* loader returns the empty array and loads no shorter block.
C1_ShortBlockIsEmpty ==
    (pc = "done" /\ ~\E j \in 1..Len(lines) : IsRunStart(j, Len(lines)))
        => Val(rv).kind = "empty"

\* C3: a file in which no line qualifies never sets a candidate, never leaves
\* the loop by break, raises nothing, and returns the empty array.
C3_NoQualifyingLineIsEmpty ==
    (\A i \in 1..Len(lines) : Unqualified(lines[i])) =>
        /\ start = None
        /\ err = None
        /\ pc # "found"
        /\ pc = "done" => Val(rv).kind = "empty"

C3_Witness ==
    /\ pc = "done"
    /\ Len(lines) >= 2
    /\ \A i \in 1..Len(lines) : Unqualified(lines[i])
    /\ \E i \in 1..Len(lines) : Fields(lines[i]) # <<>>
    /\ usecols # None
    /\ Val(rv).kind = "empty"

\* the threshold as the claim states it
ClaimedThreshold ==
    IF usecols = None THEN <<1, 1>>
    ELSE <<Max2(-SeqMin(Val(usecols)), SeqMax(Val(usecols)) + 1),
           Cardinality({Val(usecols)[k] : k \in 1..Len(Val(usecols))})>>

\* C4: the line read last was accepted (a candidate is active) iff both its
\* field count and its value count reach the threshold, componentwise; the
\* threshold is (1,1) without usecols and (max(-min, max+1), distinct) with.
C4_AcceptIffComponentwise ==
    lineno >= 1 =>
        /\ mincv = ClaimedThreshold
        /\ ncv = Cls(lineno)
        /\ (start # None) <=> Componentwise(ncv, ClaimedThreshold)

C4_Witness ==
    /\ pc = "scan" /\ lineno >= 2
    /\ usecols = Some(<<-2, 0, 0>>)
    /\ start = None
    /\ Qual(lineno - 1)

\* a line with trailing delimiters (blank fields) added before its newline
PadChoices ==
    IF delimiter = None THEN BoundedSeq({" ", "\t"}, MaxPad)
    ELSE {p \in BoundedSeq({Val(delimiter), " "}, MaxPad) :
            p # <<>> /\ p[1] = Val(delimiter)}

Pad(line, p) == SubSeq(line, 1, Len(line) - 1) \o p \o <<"\n">>

\* C9: trailing empty or blank fields do not change the classification of
\* the line read last.
C9_TrailingBlankFieldsIgnored ==
    lineno >= 1 =>
        \A p \in PadChoices :
            countcolumnsvalues(Pad(lines[lineno], p), delimiter, usecols) = ncv

C9_Witness ==
    /\ lineno >= 1
    /\ delimiter = Some(",")
    /\ lines[lineno] = <<"1", ",", "2", ",", "\n">>
    /\ ncv = <<2, 2>>
    /\ start # None

\* C10: when the loop is left by break, start is the smallest line offset
\* from which minrows lines qualify with one identical classification.
C10_FirstRunFound ==
    pc = "found" =>
        /\ start # None
        /\ \E k \in 1..Len(lines) :
              /\ Offset(k) = Val(start)
              /\ IsRunStart(k, Len(lines))
              /\ lineno = k + minrows - 1
              /\ nrows = minrows
              /\ \A j \in 1..(k - 1) : ~IsRunStart(j, Len(lines))

C10_Witness ==
    /\ pc = "found"
    /\ minrows >= 2
    /\ Val(start) > 0
    /\ lineno >= 3
    /\ Qual(lineno - 2) /\ Cls(lineno - 2) # Cls(lineno - 1)

\* the block of a file made of N preamble lines and then only block lines
FullyNumeric(line) ==
    Fields(line) # <<>> /\ \A k \in 1..Len(Fields(line)) : IsFloat(Fields(line)[k])

NumericBlockAfter(N) ==
    /\ Len(lines) - N >= minrows
    /\ \A i \in (N + 1)..Len(lines) :
          FullyNumeric(lines[i]) /\ Len(Fields(lines[i])) = Len(Fields(lines[N + 1]))

\* C2 (as claimed): N preamble lines, each non-numeric or of another column
\* count than the block, then the block: parsing starts at the block.
C2_OffsetAfterAnyPreamble ==
    pc = "done" =>
        \A N \in 0..Len(lines) :
            ( /\ NumericBlockAfter(N)
              /\ \A i \in 1..N :
                    \/ ~FullyNumeric(lines[i])
                    \/ Len(Fields(lines[i])) # Len(Fields(lines[N + 1])) )
            => (Val(rv).kind = "loadtxt" /\ Val(rv).offset = Offset(N + 1))

QualifyingBlockAfter(N) ==
    /\ Len(lines) - N >= minrows
    /\ \A i \in (N + 1)..Len(lines) : Qual(i) /\ Cls(i) = Cls(N + 1)

BlockFreePreamble(N) ==
    /\ \A i \in 1..N : ~Qual(i) \/ Cls(i) # Cls(N + 1)
    /\ \A j \in 1..N : ~IsRunStart(j, N)

\* C2 (amended): N preamble lines, each failing to qualify or qualifying with
\* a classification other than the block's, no minrows consecutive ones of
\* which qualify alike, then at least minrows lines qualifying alike: parsing
\* starts at the first byte of the block, the sum of the preamble's lengths.
C2_OffsetAfterBlockFreePreamble ==
    pc = "done" =>
        \A N \in 0..Len(lines) :
            (QualifyingBlockAfter(N) /\ BlockFreePreamble(N))
            => (Val(rv).kind = "loadtxt" /\ Val(rv).offset = Offset(N + 1))

C2_Witness ==
    /\ pc = "done"
    /\ Len(lines) >= 3
    /\ QualifyingBlockAfter(1) /\ BlockFreePreamble(1)
    /\ Qual(1)
    /\ Val(rv).offset = Len(lines[1])

-----------------------------------------------------------------------------
(* _parsecolumnid *)

\* Python objects handed around as column identifiers
PyNone == [kind |-> "none", text |-> <<>>, n |-> 0, items |-> <<>>]
PyStr(t) == [kind |-> "str", text |-> t, n |-> 0, items |-> <<>>]
PyInt(k) == [kind |-> "int", text |-> <<>>, n |-> k, items |-> <<>>]
PyList(l) == [kind |-> "list", text |-> <<>>, n |-> 0, items |-> l]

NoExc == [type |-> "", fmt |-> "", arg |-> <<>>]

DigitVal(c) ==
    CASE c = "0" -> 0 [] c = "1" -> 1 [] c = "2" -> 2 [] c = "3" -> 3
      [] c = "4" -> 4 [] c = "5" -> 5 [] c = "6" -> 6 [] c = "7" -> 7
      [] c = "8" -> 8 [] c = "9" -> 9

\* mxint = re.compile(r'^[+-]?\d+$'); "$" also matches before a final newline
MatchInt(w) ==
    LET u == IF w # <<>> /\ w[Len(w)] = "\n" THEN SubSeq(w, 1, Len(w) - 1) ELSE w
        body == IF u # <<>> /\ u[1] \in {"+", "-"} THEN Tail(u) ELSE u
    IN  body # <<>> /\ \A i \in 1..Len(body) : body[i] \in Digit

RECURSIVE DigitsValue(_)
DigitsValue(ds) ==
    IF ds = <<>> THEN 0
    ELSE 10 * DigitsValue(SubSeq(ds, 1, Len(ds) - 1)) + DigitVal(ds[Len(ds)])

\* int(w) of a text that mxint matches
IntOf(w) ==
    LET u == Strip(w) IN
    IF u[1] = "-" THEN -DigitsValue(Tail(u))
    ELSE IF u[1] = "+" THEN DigitsValue(Tail(u))
    ELSE DigitsValue(u)

MutArangeStopInclusive(a, b, st) ==
    LET n == IF st > 0 THEN (IF b >= a THEN (b - a) \div st + 1 ELSE 0)
             ELSE (IF b <= a THEN (a - b) \div (-st) + 1 ELSE 0)
    IN  [k \in 1..n |-> a + (k - 1) * st]

\* numpy.arange(a, b, st) for integers and st # 0: ceil((b - a) / st) values
Arange(a, b, st) ==
    LET n == IF st > 0 THEN (IF b > a THEN (b - a + st - 1) \div st ELSE 0)
             ELSE (IF b < a THEN (a - b + (-st) - 1) \div (-st) ELSE 0)
    IN  [k \in 1..n |-> a + (k - 1) * st]

MutInvalidNamesNothing(w) ==
    [type |-> "ValueError", fmt |-> "invalid column identifier %s", arg |-> <<>>]

\* ValueError(emsg0 % repr(w))
InvalidColumnIdentifier(w) ==
    [type |-> "ValueError", fmt |-> "invalid column identifier %s", arg |-> w.text]

\* numpy.r_[slice(start, stop, step)].tolist() with stop given: a missing
\* start is 0, a missing step is 1, a zero step divides by zero
RUnderscore(a1) ==
    LET a == IF a1[1] = None THEN 0 ELSE Val(a1[1])
        st == IF a1[3] = None THEN 1 ELSE Val(a1[3])
    IN  IF st = 0
        THEN [status |-> "raise", out |-> <<>>,
              exc |-> [type |-> "ZeroDivisionError", fmt |-> "", arg |-> <<>>]]
        ELSE [status |-> "ok", exc |-> NoExc,
              out |-> LET r == Arange(a, Val(a1[2]), st)
                      IN  [k \in 1..Len(r) |-> PyInt(r[k])]]

Raise(e) == [status |-> "raise", out |-> <<>>, exc |-> e]
Extend(l) == [status |-> "ok", out |-> l, exc |-> NoExc]

\* lines 223-243: the body of "for w in sx" for one item
ParseItem(w) ==
    IF w.kind = "int" THEN Extend(<<w>>)
    ELSE LET t == w.text IN
    IF (t # <<>> /\ (t[1] \in Alpha \/ t[1] = "@")) \/ t = <<".">>
    THEN Extend(<<w>>)
    ELSE IF MatchInt(t) THEN Extend(<<PyInt(IntOf(t))>>)
    ELSE IF 1 <= CountChar(t, ":") /\ CountChar(t, ":") <= 2
    THEN LET parts == SplitOn(t, ":")
             a0 == [k \in 1..Len(parts) |-> Strip(parts[k])]
         IN  IF \E k \in 1..Len(a0) : a0[k] # <<>> /\ ~MatchInt(a0[k])
             THEN Raise(InvalidColumnIdentifier(w))
             ELSE LET a1 == [k \in 1..3 |->
                               IF k <= Len(a0) /\ a0[k] # <<>>
                               THEN Some(IntOf(a0[k])) ELSE None]
                  IN  IF a1[2] # None THEN RUnderscore(a1)
                      ELSE Raise(InvalidColumnIdentifier(w))
    ELSE Raise(InvalidColumnIdentifier(w))

\* lines 214-217: a string is split at commas into stripped, non-empty words;
\* an integer becomes a one-element list; anything else is kept
NonEmpty(ws) == SelectSeq(ws, LAMBDA x : x # <<>>)

Normalise(a) ==
    IF a.kind = "str"
    THEN LET ws == SplitOn(a.text, ",")
             st == NonEmpty([k \in 1..Len(ws) |-> Strip(ws[k])])
         IN  PyList([k \in 1..Len(st) |-> PyStr(st[k])])
    ELSE IF a.kind = "int" THEN PyList(<<a>>)
    ELSE a

\* the whole function: [status, value, exc]
RECURSIVE ParseFrom(_, _, _)
ParseFrom(items, i, acc) ==
    IF i > Len(items) THEN [status |-> "ok", value |-> PyList(acc), exc |-> NoExc]
    ELSE LET r == ParseItem(items[i]) IN
         IF r.status = "raise"
         THEN [status |-> "raise", value |-> PyNone, exc |-> r.exc]
         ELSE ParseFrom(items, i + 1, acc \o r.out)

parsecolumnid(a) ==
    LET l == Normalise(a) IN
    IF l.kind = "none" \/ Len(l.items) = 0
    THEN [status |-> "ok", value |-> PyNone, exc |-> NoExc]
    ELSE ParseFrom(l.items, 1, <<>>)

-----------------------------------------------------------------------------
(* Inputs of _parsecolumnid *)

DigitChars == <<"0", "1", "2", "3", "4", "5", "6", "7", "8", "9">>

\* the pieces range tokens are put together from
Pieces ==
    {<<>>, <<"x">>, <<" ", "1">>}
    \cup {<<DigitChars[k + 1]>> : k \in 0..MaxNum}
    \cup {<<"-", DigitChars[k + 1]>> : k \in 1..MaxNum}

RangeTokens ==
    {p \o <<":">> \o q : p \in Pieces, q \in Pieces}
    \cup {p \o <<":">> \o q \o <<":">> \o r : p \in Pieces, q \in Pieces, r \in Pieces}

PlainTokens ==
    { <<"a">>, <<"@", "a">>, <<".">>, <<"0">>, <<"2">>, <<"-", "1">>,
      <<"+", "2">>, <<"1", "0">>, <<" ", "1">>, <<"-">>, <<"1", ".", "5">>,
      <<"2", "x">>, <<"1", ":", "2", ":", "1", ":", "2">>, <<"a", ":", "1">> }

Tokens == PlainTokens \cup RangeTokens

\* valid items that may stand before the token under test
Prefixes == { <<>>, <<PyInt(0)>>, <<PyStr(<<".">>)>>, <<PyStr(<<"a">>)>>,
              <<PyStr(<<"2", ":", "0", ":", "-", "1">>)>> }

RECURSIVE Join(_)
Join(items) ==
    IF items = <<>> THEN <<>>
    ELSE LET head == IF items[1].kind = "int"
                     THEN <<DigitChars[items[1].n + 1]>> ELSE items[1].text
         IN  IF Len(items) = 1 THEN head ELSE head \o <<",">> \o Join(Tail(items))

ParseInputs ==
    {PyNone, PyInt(1), PyList(<<>>), PyStr(<<" ", ",">>),
     PyStr(<<"0", ",", "2", ":", "4">>), PyList(<<PyInt(0), PyInt(2), PyInt(3)>>)}
    \cup {PyList(pre \o <<PyStr(t)>>) : pre \in Prefixes, t \in Tokens}
    \cup {PyStr(Join(pre \o <<PyStr(t)>>)) : pre \in Prefixes, t \in Tokens}

ParseInit ==
    /\ pc = "p_start"
    /\ arg \in ParseInputs
    /\ sx = arg
    /\ widx = 0 /\ rvlist = <<>> /\ ret = None /\ err = None
    /\ LoadIdle /\ PlotIdle

\* lines 214-220, the list is not empty: enter the loop
EnterLoop ==
    /\ pc = "p_start"
    /\ LET l == Normalise(sx) IN
       /\ ~(l.kind = "none" \/ Len(l.items) = 0)
       /\ sx' = l
    /\ widx' = 1 /\ rvlist' = <<>>
    /\ pc' = "p_loop"
    /\ UNCHANGED <<arg, ret, err, loadvars, plotvars>>

\* lines 214-219: None or an empty list returns None
ReturnNone ==
    /\ pc = "p_start"
    /\ LET l == Normalise(sx) IN
       /\ l.kind = "none" \/ Len(l.items) = 0
       /\ sx' = l
    /\ ret' = Some(PyNone)
    /\ pc' = "p_returned"
    /\ UNCHANGED <<arg, widx, rvlist, err, loadvars, plotvars>>

\* lines 222-242: one item is taken into rv
TakeItem ==
    /\ pc = "p_loop"
    /\ widx <= Len(sx.items)
    /\ LET r == ParseItem(sx.items[widx]) IN
       /\ r.status = "ok"
       /\ rvlist' = rvlist \o r.out
    /\ widx' = widx + 1
    /\ UNCHANGED <<pc, arg, sx, ret, err, loadvars, plotvars>>

\* lines 236, 241 and 243: the item raises
RaiseOnItem ==
    /\ pc = "p_loop"
    /\ widx <= Len(sx.items)
    /\ LET r == ParseItem(sx.items[widx]) IN
       /\ r.status = "raise"
       /\ err' = Some(r.exc)
    /\ pc' = "p_raised"
    /\ UNCHANGED <<arg, sx, widx, rvlist, ret, loadvars, plotvars>>

\* line 244
ReturnList ==
    /\ pc = "p_loop"
    /\ widx > Len(sx.items)
    /\ ret' = Some(PyList(rvlist))
    /\ pc' = "p_returned"
    /\ UNCHANGED <<arg, sx, widx, rvlist, err, loadvars, plotvars>>

ParseNext == EnterLoop \/ ReturnNone \/ TakeItem \/ RaiseOnItem \/ ReturnList

ParseSpec == ParseInit /\ [][ParseNext]_vars

-----------------------------------------------------------------------------
(* Properties of _parsecolumnid *)

ColonParts(t) ==
    LET parts == SplitOn(t, ":") IN [k \in 1..Len(parts) |-> Strip(parts[k])]

IsNameTok(t) == t # <<>> /\ (t[1] \in Alpha \/ t[1] = "@")
IsAliasTok(t) == t = <<".">>
IsIntTok(t) == MatchInt(t)

\* start:stop or start:stop:step, every piece empty or a signed integer
IsRangeShape(t) ==
    /\ ~IsNameTok(t) /\ ~IsAliasTok(t) /\ ~IsIntTok(t)
    /\ CountChar(t, ":") \in {1, 2}
    /\ \A k \in 1..Len(ColonParts(t)) :
          ColonParts(t)[k] = <<>> \/ MatchInt(ColonParts(t)[k])

HasStopTok(t) == ColonParts(t)[2] # <<>>
RangeStart(t) == IF ColonParts(t)[1] = <<>> THEN 0 ELSE IntOf(ColonParts(t)[1])
RangeStop(t) == IntOf(ColonParts(t)[2])
RangeStep(t) ==
    IF Len(ColonParts(t)) = 3 /\ ColonParts(t)[3] # <<>>
    THEN IntOf(ColonParts(t)[3]) ELSE 1

WellFormedRange(t) == IsRangeShape(t) /\ HasStopTok(t) /\ RangeStep(t) # 0

\* a, a+st, a+2st, ... from a inclusive up to b exclusive in the direction of st
RECURSIVE RangeSeq(_, _, _)
RangeSeq(a, b, st) ==
    IF (st > 0 /\ a < b) \/ (st < 0 /\ a > b)
    THEN <<PyInt(a)>> \o RangeSeq(a + st, b, st)
    ELSE <<>>

ValidItem(w) ==
    \/ w.kind = "int"
    \/ w.kind = "str" /\ ( \/ IsNameTok(w.text) \/ IsAliasTok(w.text)
                           \/ IsIntTok(w.text) \/ WellFormedRange(w.text) )

\* a range without a stop, or a token of none of the accepted shapes
BadItem(w) ==
    /\ w.kind = "str"
    /\ \/ IsRangeShape(w.text) /\ ~HasStopTok(w.text)
       \/ ~IsNameTok(w.text) /\ ~IsAliasTok(w.text) /\ ~IsIntTok(w.text)
          /\ ~IsRangeShape(w.text)

\* what an item stands for in the result
Expected(w) ==
    IF w.kind = "int" THEN <<w>>
    ELSE IF IsNameTok(w.text) \/ IsAliasTok(w.text) THEN <<w>>
    ELSE IF IsIntTok(w.text) THEN <<PyInt(IntOf(w.text))>>
    ELSE IF WellFormedRange(w.text)
    THEN RangeSeq(RangeStart(w.text), RangeStop(w.text), RangeStep(w.text))
    ELSE <<PyNone>>

RECURSIVE FlatExpected(_)
FlatExpected(items) ==
    IF items = <<>> THEN <<>> ELSE Expected(items[1]) \o FlatExpected(Tail(items))

ZeroTwoThree == PyList(<<PyInt(0), PyInt(2), PyInt(3)>>)

\* C5: the items taken so far stand in rv in their order, each range token by
\* exactly start, start+step, ... below (above, for a negative step) stop;
\* "0,2:4" and [0,2,3] both give [0,2,3].
C5_RangeExpandsExactly ==
    /\ (pc \in {"p_loop", "p_raised", "p_returned"} /\ widx >= 1)
          => rvlist = FlatExpected(SubSeq(sx.items, 1, widx - 1))
    /\ (pc = "p_returned" /\ widx >= 1) => ret = Some(PyList(rvlist))
    /\ (pc = "p_returned" /\ arg = PyStr(<<"0", ",", "2", ":", "4">>))
          => ret = Some(ZeroTwoThree)
    /\ (pc = "p_returned" /\ arg = ZeroTwoThree) => ret = Some(ZeroTwoThree)

C5_Witness ==
    /\ pc = "p_returned"
    /\ arg = PyStr(<<"2", ":", "0", ":", "-", "1", ",", "0", ":", "2", ":", "2">>)
    /\ ret = Some(PyList(<<PyInt(2), PyInt(1), PyInt(0)>>))

FirstBad(k) ==
    /\ BadItem(sx.items[k])
    /\ \A j \in 1..(k - 1) : ValidItem(sx.items[j])

\* C6: when the first item that is a range without stop, or of no accepted
\* shape, follows only valid items, the call ends in the invalid-column-
\* identifier error naming that item and returns nothing.
C6_BadTokenRaises ==
    (pc \in {"p_raised", "p_returned"} /\ widx >= 1) =>
        \A k \in 1..Len(sx.items) :
            FirstBad(k) =>
                /\ pc = "p_raised"
                /\ widx = k
                /\ err = Some([type |-> "ValueError",
                               fmt |-> "invalid column identifier %s",
                               arg |-> sx.items[k].text])
                /\ ret = None

C6_Witness ==
    /\ pc = "p_raised"
    /\ widx = 2
    /\ sx.items[2] = PyStr(<<"2", ":">>)
    /\ rvlist = <<PyInt(2), PyInt(1)>>
    /\ Val(err).arg = <<"2", ":">>
    /\ ret = None

-----------------------------------------------------------------------------
(* The loader as _loadplotdata calls it: loadData(filename, usecols=uc) *)

\* def load_data(filename, minrows=10, **kwargs)
MinRowsDefault == 10

\* the whole "for line in fid" loop
RECURSIVE ScanFile(_, _, _, _, _, _, _)
ScanFile(s, i, file, delim, cols, m, minr) ==
    IF i > Len(file) \/ s.found THEN s
    ELSE CHOOSE r \in {ScanFile(x, i + 1, file, delim, cols, m, minr) :
                          x \in {ScanStep(s, file[i], delim, cols, m, minr)}} : TRUE

\* numpy arrays: a shape and the values in row-major order
Arr(shape, data) == [shape |-> shape, data |-> data]
EmptyArr == Arr(<<0>>, <<>>)
Size(a) == Len(a.data)
Squeeze(a) == Arr(SelectSeq(a.shape, LAMBDA n : n # 1), a.data)

RECURSIVE Flatten(_)
Flatten(rows) == IF rows = <<>> THEN <<>> ELSE rows[1] \o Flatten(Tail(rows))

\* float(w) of a text without decimal point
FloatOf(w) == IntOf(Strip(w))

\* index of the line that starts at byte offset off
RECURSIVE LineAt(_, _, _, _)
LineAt(file, off, i, pos) ==
    IF pos >= off \/ i > Len(file) THEN i
    ELSE LineAt(file, off, i + 1, pos + Len(file[i]))

\* numpy.loadtxt(fid, usecols=cols) from the line at index first: blank lines
\* are skipped, every other line gives the row [float(vals[i]) for i in cols],
\* the result is squeezed
LoadTxt(file, first, delim, cols) ==
    LET body == SubSeq(file, first, Len(file))
        kept == SelectSeq(body, LAMBDA l : Strip(l) # <<>>)
        words(l) == Split(Strip(l), delim)
    IN  IF \E r \in 1..Len(kept), k \in 1..Len(cols) :
              ~Indexable(words(kept[r]), cols[k])
        THEN [status |-> "raise", arr |-> EmptyArr,
              exc |-> [type |-> "IndexError", fmt |-> "", arg |-> <<>>]]
        ELSE IF \E r \in 1..Len(kept), k \in 1..Len(cols) :
              ~IsFloat(Item(words(kept[r]), cols[k]))
        THEN [status |-> "raise", arr |-> EmptyArr,
              exc |-> [type |-> "ValueError", fmt |-> "", arg |-> <<>>]]
        ELSE [status |-> "ok", exc |-> NoExc,
              arr |-> Squeeze(Arr(<<Len(kept), Len(cols)>>,
                        Flatten([r \in 1..Len(kept) |->
                          [k \in 1..Len(cols) |->
                             FloatOf(Item(words(kept[r]), cols[k]))]])))]

\* lines 35-93 as one call: [status, arr, exc, res]
loaddata(file, minr, delim, cols) ==
    CHOOSE out \in
      { IF res.kind = "empty"
        THEN [status |-> "ok", arr |-> EmptyArr, exc |-> NoExc, res |-> res]
        ELSE LET use == IF cols = None
                        THEN [k \in 1..res.ncols |-> k - 1] ELSE Val(cols)
                 t == LoadTxt(file, LineAt(file, res.offset, 1, 0), delim, use)
             IN  [status |-> t.status, arr |-> t.arr, exc |-> t.exc, res |-> res]
        : res \in { LoadResult(s.start, s.ncvblock) :
                      s \in {ScanFile(ScanInit, 1, file, delim, cols,
                                      Threshold(cols), minr)} } } : TRUE

\* the name -> index lookup done for string items of usecols: the position of
\* the name among the words of the file's first line
FindColumnName(file, name) ==
    LET hdr == IF file = <<>> THEN <<>> ELSE SplitWS(file[1])
        hits == {k \in 1..Len(hdr) : hdr[k] = name}
    IN  IF hits = {} THEN None ELSE Some((CHOOSE k \in hits : \A j \in hits : k <= j) - 1)

-----------------------------------------------------------------------------
(* _loadplotdata *)

MutDotAliasIsZero(ucl) == PyInt(0)

\* dotalias = ([c for c in uc if c != '.'] + [0])[0]
DotAlias(ucl) ==
    Append(SelectSeq(ucl, LAMBDA c : c # PyStr(<<".">>)), PyInt(0))[1]

\* dotindices = [i for i, c in enumerate(uc) if c == '.'], zero based
RECURSIVE DotIndices(_, _)
DotIndices(ucl, i) ==
    IF i > Len(ucl) THEN <<>>
    ELSE (IF ucl[i] = PyStr(<<".">>) THEN <<i - 1>> ELSE <<>>)
         \o DotIndices(ucl, i + 1)

\* for i in dotindices: uc[i] = dotalias
ReplaceDots(ucl, alias) ==
    [k \in 1..Len(ucl) |-> IF ucl[k] = PyStr(<<".">>) THEN alias ELSE ucl[k]]

\* d.reshape((nr, -1))
Reshape(a, nr) == Arr(<<nr, Size(a) \div nr>>, a.data)

\* d[:, lo:hi] of a two-dimensional array, zero based, hi exclusive
ColSlice(a, lo, hi) ==
    LET nr == a.shape[1]
        nc == a.shape[2]
        h == IF hi < nc THEN hi ELSE nc
        w == IF h > lo THEN h - lo ELSE 0
    IN  Arr(<<nr, w>>,
            Flatten([r \in 1..nr |-> [k \in 1..w |-> a.data[(r - 1) * nc + lo + k]]]))

\* d[:, dotindices] = numpy.arange(nrows).reshape(nrows, -1)
FillRowIndex(a, dots) ==
    LET nc == a.shape[2] IN
    Arr(a.shape,
        [p \in 1..Size(a) |->
            IF \E k \in 1..Len(dots) : dots[k] = (p - 1) % nc
            THEN (p - 1) \div nc ELSE a.data[p]])

\* lines 151-157: [status, xy, exc]
FillAndSplit(a, dots, n) ==
    IF Size(a) = 0
    THEN [status |-> "ok", xy |-> <<a, a>>, exc |-> NoExc]
    ELSE LET nr == a.shape[1]
             r2 == Reshape(a, nr)
         IN  IF \E k \in 1..Len(dots) : dots[k] >= r2.shape[2]
             THEN [status |-> "raise", xy |-> <<a, a>>,
                   exc |-> [type |-> "IndexError", fmt |-> "", arg |-> <<>>]]
             ELSE LET f == FillRowIndex(r2, dots) IN
                  [status |-> "ok", exc |-> NoExc,
                   xy |-> << Squeeze(ColSlice(f, 0, n)),
                             Squeeze(ColSlice(f, n, f.shape[2])) >>]

-----------------------------------------------------------------------------
(* Inputs of _loadplotdata *)

MaxRows == 11

RenderNat(n) ==
    IF n < 10 THEN <<DigitChars[n + 1]>>
    ELSE <<DigitChars[(n \div 10) + 1], DigitChars[(n % 10) + 1]>>

\* data row r (from 0): the two values r+3 and r+4
DataRow(r) == RenderNat(r + 3) \o <<" ">> \o RenderNat(r + 4) \o <<"\n">>

HeaderChoices == { <<>>, << <<"a", " ", "b", "\n">> >> }
TailChoices == { <<>>, << <<"x", "\n">> >> }

PlotFiles ==
    { h \o [r \in 1..n |-> DataRow(r - 1)] \o t :
        h \in HeaderChoices, n \in 0..MaxRows, t \in TailChoices }

XChoices == { PyNone, PyStr(<<".">>), PyStr(<<"1">>), PyStr(<<"b">>),
              PyStr(<<"0", ",", ".">>) }
YChoices == { PyNone, PyStr(<<".">>), PyStr(<<"1">>), PyStr(<<"a">>),
              PyStr(<<".", ",", "0", ":", "2">>), PyStr(<<"2", ":">>),
              PyInt(0) }

PlotInit ==
    /\ pc = "q_start"
    /\ lines \in PlotFiles
    /\ xi \in XChoices
    /\ yi \in YChoices
    /\ uc = <<>> /\ dotindices = <<>> /\ dotalias = None /\ d = None /\ xy = None
    /\ minrows = MinRowsDefault /\ delimiter = None /\ usecols = None
    /\ mincv = <<1, 1>> /\ lineno = 0 /\ fpos = 0 /\ nrows = 0
    /\ start = None /\ ncvblock = None /\ ncv = None /\ rv = None
    /\ err = None
    /\ ParseIdle

plotrest == <<lines, minrows, delimiter, mincv, lineno, fpos, nrows, start,
              ncvblock, ncv, parsevars>>

\* lines 128-129, both identifiers parse
ParseIds ==
    /\ pc = "q_start"
    /\ parsecolumnid(xi).status = "ok" /\ parsecolumnid(yi).status = "ok"
    /\ xi' = parsecolumnid(xi).value
    /\ yi' = parsecolumnid(yi).value
    /\ pc' = "q_ids"
    /\ UNCHANGED <<uc, dotindices, dotalias, d, xy, usecols, rv, err, plotrest>>

\* lines 128-129, one of them raises
ParseIdsRaises ==
    /\ pc = "q_start"
    /\ LET px == parsecolumnid(xi)
           py == parsecolumnid(yi)
       IN  /\ px.status = "raise" \/ py.status = "raise"
           /\ err' = Some(IF px.status = "raise" THEN px.exc ELSE py.exc)
    /\ pc' = "q_raised"
    /\ UNCHANGED <<plotvars, usecols, rv, plotrest>>

\* lines 130-133
ExplicitXWithoutY ==
    /\ pc = "q_ids"
    /\ yi = PyNone /\ xi # PyNone
    /\ err' = Some([type |-> "ValueError",
                    fmt |-> "y-column must be specified for explicit x.",
                    arg |-> <<>>])
    /\ pc' = "q_raised"
    /\ UNCHANGED <<plotvars, usecols, rv, plotrest>>

\* lines 134-140
LoadFirstTwoColumns ==
    /\ pc = "q_ids"
    /\ yi = PyNone /\ xi = PyNone
    /\ \E l \in {loaddata(lines, minrows, delimiter, None)} :
       /\ rv' = Some(l.res)
       /\ IF l.status = "raise"
          THEN /\ err' = Some(l.exc) /\ pc' = "q_raised" /\ UNCHANGED <<d, xy>>
          ELSE /\ d' = Some(l.arr)
               /\ xy' = Some(IF Len(l.arr.shape) <= 1
                             THEN <<Arr(<<Size(l.arr)>>,
                                        [k \in 1..Size(l.arr) |-> k - 1]), l.arr>>
                             ELSE <<Squeeze(ColSlice(l.arr, 0, 1)),
                                    Squeeze(ColSlice(l.arr, 1, 2))>>)
               /\ pc' = "q_returned" /\ UNCHANGED err
    /\ UNCHANGED <<xi, yi, uc, dotindices, dotalias, usecols, plotrest>>

\* lines 142-149
ReplaceAliases ==
    /\ pc = "q_ids"
    /\ yi # PyNone
    /\ LET x == IF xi = PyNone THEN <<PyInt(0)>> ELSE xi.items
           u == x \o yi.items
       IN  /\ xi' = PyList(x)
           /\ dotindices' = DotIndices(u, 1)
           /\ dotalias' = Some(DotAlias(u))
           /\ uc' = ReplaceDots(u, DotAlias(u))
    /\ pc' = "q_load"
    /\ UNCHANGED <<yi, d, xy, usecols, rv, err, plotrest>>

\* the usecols the loader works with once names are looked up
Resolved(file, ucl) ==
    [k \in 1..Len(ucl) |->
        IF ucl[k].kind = "int" THEN Some(ucl[k].n)
        ELSE FindColumnName(file, ucl[k].text)]

\* line 150, the loader returns an array
LoadColumns ==
    /\ pc = "q_load"
    /\ LET r == Resolved(lines, uc) IN
       /\ \A k \in 1..Len(r) : r[k] # None
       /\ LET cols == Some([k \in 1..Len(r) |-> Val(r[k])]) IN
          \E l \in {loaddata(lines, minrows, delimiter, cols)} :
              /\ l.status = "ok"
              /\ usecols' = cols
              /\ rv' = Some(l.res)
              /\ d' = Some(l.arr)
    /\ pc' = "q_loaded"
    /\ UNCHANGED <<xi, yi, uc, dotindices, dotalias, xy, err, plotrest>>

\* line 150, the loader raises: an unknown column name, or loadtxt fails
LoadColumnsRaises ==
    /\ pc = "q_load"
    /\ LET r == Resolved(lines, uc) IN
       IF \E k \in 1..Len(r) : r[k] = None
       THEN /\ err' = Some([type |-> "ValueError", fmt |-> "", arg |-> <<>>])
            /\ UNCHANGED <<usecols, rv>>
       ELSE LET cols == Some([k \in 1..Len(r) |-> Val(r[k])]) IN
            \E l \in {loaddata(lines, minrows, delimiter, cols)} :
                /\ l.status = "raise"
                /\ usecols' = cols
                /\ rv' = Some(l.res)
                /\ err' = Some(l.exc)
    /\ pc' = "q_raised"
    /\ UNCHANGED <<plotvars, plotrest>>

\* lines 151-157, the arrays are returned
FillAliases ==
    /\ pc = "q_loaded"
    /\ \E f \in {FillAndSplit(Val(d), dotindices, Len(xi.items))} :
       /\ f.status = "ok"
       /\ xy' = Some(f.xy)
    /\ pc' = "q_returned"
    /\ UNCHANGED <<xi, yi, uc, dotindices, dotalias, d, usecols, rv, err, plotrest>>

\* line 155 raises
FillAliasesRaises ==
    /\ pc = "q_loaded"
    /\ \E f \in {FillAndSplit(Val(d), dotindices, Len(xi.items))} :
       /\ f.status = "raise"
       /\ err' = Some(f.exc)
    /\ pc' = "q_raised"
    /\ UNCHANGED <<plotvars, usecols, rv, plotrest>>

PlotNext ==
    \/ ParseIds \/ ParseIdsRaises \/ ExplicitXWithoutY \/ LoadFirstTwoColumns
    \/ ReplaceAliases \/ LoadColumns \/ LoadColumnsRaises
    \/ FillAliases \/ FillAliasesRaises

PlotSpec == PlotInit /\ [][PlotNext]_vars

-----------------------------------------------------------------------------
(* Properties of _loadplotdata *)

Dot == PyStr(<<".">>)

\* the selection as requested: x entries, then y entries
Selection == xi.items \o yi.items

\* the data rows the loader read: the non-blank lines from the block's start
LoadedRows ==
    SelectSeq(SubSeq(lines, LineAt(lines, Val(rv).offset, 1, 0), Len(lines)),
              LAMBDA l : Strip(l) # <<>>)

\* what output column j (from 1) holds in data row r (from 1)
ExpectedCell(r, j) ==
    IF Selection[j] = Dot THEN r - 1
    ELSE FloatOf(Item(SplitWS(LoadedRows[r]), Val(usecols)[j]))

ExpectedColumns(lo, hi) ==
    Squeeze(Arr(<<Len(LoadedRows), hi - lo + 1>>,
                Flatten([r \in 1..Len(LoadedRows) |->
                           [k \in 1..(hi - lo + 1) |-> ExpectedCell(r, lo + k - 1)]])))

\* C7 (as claimed): once a block was detected and loaded for an x/y selection,
\* the call returns, every "." column holds 0..L-1 for the L rows loaded and
\* every other column holds the values of the file.
C7_AliasColumnsCountRows ==
    (pc \in {"q_returned", "q_raised"} /\ uc # <<>> /\ d # None /\ Size(Val(d)) > 0)
        => /\ pc = "q_returned"
           /\ xy = Some(<< ExpectedColumns(1, Len(xi.items)),
                           ExpectedColumns(Len(xi.items) + 1, Len(uc)) >>)

\* C8 (as claimed): every "." of the selection is replaced in uc by one and
\* the same placeholder, which is an integer column index.
C8_AliasBecomesIntegerColumn ==
    pc = "q_load" =>
        /\ Len(uc) = Len(Selection)
        /\ \A k \in 1..Len(uc) :
              Selection[k] = Dot => (uc[k] = Val(dotalias) /\ uc[k].kind = "int")

\* C8 (amended): every "." of the selection is replaced in uc by one and the
\* same placeholder, every other entry is kept; the placeholder is the first
\* entry of the selection that is not ".", an integer index or a column name
\* as requested, and the integer 0 when every entry is ".".
C8_AliasBecomesFirstColumn ==
    pc = "q_load" =>
        /\ Len(uc) = Len(Selection)
        /\ \A k \in 1..Len(uc) :
              /\ Selection[k] = Dot => uc[k] = Val(dotalias)
              /\ Selection[k] # Dot => uc[k] = Selection[k]
              /\ uc[k] # Dot
              /\ (k - 1 \in Range(dotindices)) <=> Selection[k] = Dot
        /\ \/ \E k \in 1..Len(Selection) :
                /\ Selection[k] # Dot
                /\ \A j \in 1..(k - 1) : Selection[j] = Dot
                /\ Val(dotalias) = Selection[k]
           \/ /\ \A k \in 1..Len(Selection) : Selection[k] = Dot
              /\ Val(dotalias) = PyInt(0)

C8_Witness ==
    /\ pc = "q_load"
    /\ Selection = <<Dot, PyStr(<<"a">>)>>
    /\ uc = <<PyStr(<<"a">>), PyStr(<<"a">>)>>
    /\ dotindices = <<0>>

=============================================================================
